---- MODULE Spec2Model ----
(***************************************************************************)
(* Model of the OCR service of BookLens (src/unnamed/part_005): the        *)
(* module-level Tesseract worker handle with its lazy initialization and   *)
(* termination, single-pass recognition, and the multi-pass orchestrator   *)
(* recognizeTextMultiPass with its scoring, selection and progress events, *)
(* and the pure image functions detectVerticalText, detectSkewAngle,      *)
(* deskewImage, applySharpen, calculateOtsuThreshold and preprocessImage.  *)
(*                                                                         *)
(* JavaScript runs one task at a time.  An action of the model is either   *)
(* an event (an API call, or the engine settling a promise) or the         *)
(* continuation of an async function after an await (a microtask).  The    *)
(* microtasks an event causes run before the next event, so every event    *)
(* is guarded by ~MicrotaskPending.                                        *)
(***************************************************************************)
EXTENDS Integers, Sequences, FiniteSets, TLC

(* ----------------------------- bounds ---------------------------------- *)
NumProcs == 2        \* concurrent callers of the service
MaxCreations == 3    \* cap on Tesseract.createWorker calls in a run
MaxCalls == 4        \* cap on API calls in a run
ProgressSteps == 2   \* the engine reports progress m / ProgressSteps, m in 0..ProgressSteps
MaxEvents == 2       \* cap on the logger callbacks of one engine job
MaxLines == 3        \* lines of an OCR result given to detectVerticalText
MaxBoxWidth == 2     \* width of a line's bounding box
MaxBoxHeight == 5    \* height of a line's bounding box
MaxWidth == 3        \* width in pixels of an image given to deskewImage
MaxHeight == 2       \* height in pixels of an image given to deskewImage

Procs == 1..NumProcs
WorkerIds == 1..MaxCreations

(* --------------------------- module state ------------------------------ *)
NoWorker == 0        \* `null` for worker / initPromise

\* language codes a call may ask for; `language = 'eng'` is the default
DefaultLanguage == "eng"
Languages == {"eng", "deu"}

VARIABLES
  worker,          \* let worker: NoWorker or the id of a created worker
  isInitializing,  \* let isInitializing
  initPromise,     \* let initPromise: NoWorker or the id of the creation it wraps
  engine,          \* Tesseract side: state of creation / worker k
  wlang,           \* Tesseract side: language creation k was asked for
  cepoch,          \* history: number of terminateWorker calls before creation k
  epoch,           \* history: number of terminateWorker calls so far
  initSince,       \* history: initializeWorker ran since the last terminateWorker call
  inflight,        \* engine recognize calls issued and not yet settled
  loc,             \* per caller: position and locals of its running call
  calls,           \* number of API calls made so far
  pure             \* argument and results of a pure image function under test

vars == <<worker, isInitializing, initPromise, engine, wlang, cepoch, epoch,
          initSince, inflight, loc, calls, pure>>

(* ------------------------ engine results ------------------------------- *)
Letters(n) == [i \in 1..n |-> "a"]

\* result.data of a successful worker.recognize: confidence 0..100 and text
EngineResult(c, t) == [confidence |-> c, text |-> t]

NoRes == EngineResult(0, <<>>)

\* what the engine answers in the lifecycle specification
EngineResults == {EngineResult(80, Letters(20))}

\* what the engine answers in the scoring specification
ScoreResults ==
  { EngineResult(95, Letters(1)),
    EngineResult(60, Letters(50)),
    EngineResult(80, Letters(20)),
    EngineResult(100, Letters(8) \o <<"\n">>),
    EngineResult(85, Letters(12)) }

(* ------------------------ pure helpers --------------------------------- *)
IsSpace(ch) == ch \in {" ", "\n", "\t"}

RECURSIVE TrimStart(_)
TrimStart(s) ==
  IF s = <<>> THEN s
  ELSE IF IsSpace(Head(s)) THEN TrimStart(Tail(s)) ELSE s

RECURSIVE TrimEnd(_)
TrimEnd(s) ==
  IF s = <<>> THEN s
  ELSE IF IsSpace(s[Len(s)]) THEN TrimEnd(SubSeq(s, 1, Len(s) - 1)) ELSE s

\* String.prototype.trim
Trim(s) == TrimEnd(TrimStart(s))

Min(a, b) == IF a <= b THEN a ELSE b

\* confidence * Math.min(1, trimmedLength / 10), kept in integers as ten times
\* the code's value: confidence * min(10, trimmedLength)
ScoreUncappedMutant(r) == r.confidence * Len(Trim(r.text))
Score(r) == r.confidence * Min(10, Len(Trim(r.text)))

\* comparator (a, b) => b.score - a.score: negative when a sorts before b
Compare(a, b) == b.score - a.score

\* Array.prototype.sort is stable: x goes behind every element it does not
\* sort strictly before
RECURSIVE InsertUnstableMutant(_, _)
InsertUnstableMutant(x, s) ==
  IF s = <<>> THEN <<x>>
  ELSE IF Compare(x, Head(s)) <= 0 THEN <<x>> \o s
  ELSE <<Head(s)>> \o InsertUnstableMutant(x, Tail(s))

RECURSIVE Insert(_, _)
Insert(x, s) ==
  IF s = <<>> THEN <<x>>
  ELSE IF Compare(x, Head(s)) < 0 THEN <<x>> \o s
  ELSE <<Head(s)>> \o Insert(x, Tail(s))

RECURSIVE SortByScore(_)
SortByScore(s) ==
  IF s = <<>> THEN <<>>
  ELSE Insert(s[Len(s)], SortByScore(SubSeq(s, 1, Len(s) - 1)))

\* results.map(r => ({...r, score}))
Scored(results) ==
  [i \in 1..Len(results) |->
     [confidence |-> results[i].confidence, text |-> results[i].text,
      method |-> results[i].method, score |-> Score(results[i])]]

\* scoredResults.sort(...)[0]
BestResult(results) == Head(SortByScore(Scored(results)))

NoResult == [confidence |-> 0, text |-> <<>>, method |-> "none", score |-> 0]

(* ------------------------ progress events ------------------------------ *)
\* What onProgress receives.  An event of the initialization carries the
\* engine's status and progress as they are; an event of a pass carries the
\* status `${label} (${currentPass}/${totalPasses})` and the overall progress.
\* progress is the fraction num / den; from (the pass of the engine call that
\* produced the event) and m (the engine's own progress, in steps of
\* 1 / ProgressSteps) are history.
NoEvent ==
  [kind |-> "none", label |-> "none", index |-> 0, total |-> 0,
   from |-> 0, m |-> 0, num |-> 0, den |-> 1]

(* ------------------------ caller locals -------------------------------- *)
\* pc: "idle", "init" (initializeWorker awaiting initPromise), "rt_init",
\* "rt_rec" (recognizeText awaiting init / worker.recognize), "mp_init",
\* "mp_image", "mp_pass" (recognizeTextMultiPass awaiting init / image load /
\* a pass), "term" (terminateWorker awaiting worker.terminate()), "done".
\* box is the state of the awaited recognize promise; attempts is a history
\* of the recognizeWithProgress invocations of the running multi-pass call.
\* language and onProgress are the call's options; logger is the creation
\* whose logger option closes over this call's onProgress; image and loads
\* follow the loading of a string image source.  passEvents, prevEvent and
\* lastEvent are a history of the events delivered to onProgress: their
\* number since the running pass (or the initialization) began, and the
\* last two of them.
InitLoc ==
  [pc |-> "idle", op |-> "none", aw |-> NoWorker, box |-> "none", res |-> NoRes,
   language |-> "none", onProgress |-> FALSE, logger |-> NoWorker,
   tryPreprocessing |-> FALSE, tryRotations |-> FALSE, imageIsString |-> FALSE,
   image |-> "none", loads |-> 0,
   totalPasses |-> 0, currentPass |-> 0, stage |-> "none", baseImage |-> "none",
   results |-> <<>>, attempts |-> <<>>, outcome |-> "none", ret |-> NoResult,
   passEvents |-> 0, prevEvent |-> NoEvent, lastEvent |-> NoEvent]

Fresh(op) == [InitLoc EXCEPT !.op = op]

Free(p) == loc[p].pc = "idle"

\* the module as loaded: no worker, nobody calling
InitService ==
  /\ worker = NoWorker
  /\ isInitializing = FALSE
  /\ initPromise = NoWorker
  /\ engine = [k \in WorkerIds |-> "none"]
  /\ wlang = [k \in WorkerIds |-> "none"]
  /\ cepoch = [k \in WorkerIds |-> 0]
  /\ epoch = 0
  /\ initSince = FALSE
  /\ inflight = {}
  /\ loc = [p \in Procs |-> InitLoc]
  /\ calls = 0

NoPure == [fn |-> "none"]

Init == InitService /\ pure = NoPure

(* ------------------------ promises and microtasks ---------------------- *)
\* state of the promise of creation k (the async closure of initializeWorker)
PromiseState(k) ==
  CASE engine[k] = "none" -> "unused"
    [] engine[k] = "creating" -> "pending"
    [] engine[k] = "failed" -> "rejected"
    [] OTHER -> "resolved"

InitSettled(l) ==
  /\ l.pc \in {"init", "rt_init", "mp_init"}
  /\ PromiseState(l.aw) \in {"resolved", "rejected"}

\* `await recognizeWithProgress(...)`: the call resumes once the pass settled
PassNotAwaitedMutant(l) == TRUE
PassSettled(l) == l.box \in {"ok", "fail"}

Ready(p) ==
  \/ loc[p].pc = "done"
  \/ InitSettled(loc[p])
  \/ loc[p].pc = "rt_rec" /\ loc[p].box \in {"ok", "fail"}
  \/ loc[p].pc = "mp_pass" /\ PassSettled(loc[p])

MicrotaskPending == \E p \in Procs : Ready(p)

\* an API call or an engine event is a task of its own
Event == ~MicrotaskPending

ApiCall(p) ==
  /\ Event
  /\ Free(p)
  /\ calls < MaxCalls
  /\ calls' = calls + 1

NextId == Cardinality({k \in WorkerIds : engine[k] # "none"}) + 1

(* ------------------------ initializeWorker ----------------------------- *)
\* The synchronous part of initializeWorker; k is the promise the caller is
\* left awaiting, NoWorker when the existing worker is returned.
InitializeWorkerSharesSettledMutant(k, language) ==
  /\ initSince' = TRUE
  /\ \/ /\ initPromise # NoWorker
        /\ k = initPromise
        /\ UNCHANGED <<isInitializing, initPromise, engine, wlang, cepoch>>
     \/ /\ initPromise = NoWorker
        /\ worker # NoWorker
        /\ k = NoWorker
        /\ UNCHANGED <<isInitializing, initPromise, engine, wlang, cepoch>>
     \/ /\ initPromise = NoWorker
        /\ worker = NoWorker
        /\ k = NextId /\ k \in WorkerIds
        /\ isInitializing' = TRUE
        /\ initPromise' = k
        /\ engine' = [engine EXCEPT ![k] = "creating"]
        /\ wlang' = [wlang EXCEPT ![k] = language]
        /\ cepoch' = [cepoch EXCEPT ![k] = epoch]

InitializeWorker(k, language) ==
  /\ initSince' = TRUE
  /\ \/ /\ isInitializing /\ initPromise # NoWorker
        /\ k = initPromise
        /\ UNCHANGED <<isInitializing, initPromise, engine, wlang, cepoch>>
     \/ /\ ~(isInitializing /\ initPromise # NoWorker)
        /\ worker # NoWorker
        /\ k = NoWorker
        /\ UNCHANGED <<isInitializing, initPromise, engine, wlang, cepoch>>
     \/ /\ ~(isInitializing /\ initPromise # NoWorker)
        /\ worker = NoWorker
        /\ k = NextId /\ k \in WorkerIds
        /\ isInitializing' = TRUE
        /\ initPromise' = k
        /\ engine' = [engine EXCEPT ![k] = "creating"]
        /\ wlang' = [wlang EXCEPT ![k] = language]
        /\ cepoch' = [cepoch EXCEPT ![k] = epoch]

\* the creation whose logger a call waiting for promise k supplied: k, if
\* the call started it
Logger(k) == IF k # NoWorker /\ engine[k] = "none" THEN k ELSE NoWorker

\* initializeWorker(language) called from outside; aw of the settled call is
\* the worker it returned
InitializeWorkerCall(p, language) ==
  /\ ApiCall(p)
  /\ \E k \in 0..MaxCreations :
       /\ InitializeWorker(k, language)
       /\ loc' = [loc EXCEPT ![p] =
            LET l == [Fresh("initializeWorker") EXCEPT !.language = language] IN
            IF k = NoWorker
            THEN [l EXCEPT !.pc = "done", !.outcome = "ok", !.aw = worker]
            ELSE [l EXCEPT !.pc = "init", !.aw = k, !.logger = Logger(k)]]
  /\ UNCHANGED <<worker, epoch, inflight, pure>>

\* Tesseract.createWorker resolves; the closure assigns worker and returns
CreateResolvesKeepsFlagMutant(k) ==
  /\ Event
  /\ engine[k] = "creating"
  /\ engine' = [engine EXCEPT ![k] = "live"]
  /\ worker' = k
  /\ UNCHANGED <<isInitializing, initPromise, wlang, cepoch, epoch, initSince,
                 inflight, loc, calls, pure>>

CreateResolves(k) ==
  /\ Event
  /\ engine[k] = "creating"
  /\ engine' = [engine EXCEPT ![k] = "live"]
  /\ worker' = k
  /\ isInitializing' = FALSE
  /\ UNCHANGED <<initPromise, wlang, cepoch, epoch, initSince, inflight, loc, calls, pure>>

\* Tesseract.createWorker rejects; the closure's catch block
CreateRejectsKeepsFlagMutant(k) ==
  /\ Event
  /\ engine[k] = "creating"
  /\ engine' = [engine EXCEPT ![k] = "failed"]
  /\ worker' = NoWorker
  /\ UNCHANGED <<isInitializing, initPromise, wlang, cepoch, epoch, initSince,
                 inflight, loc, calls, pure>>

CreateRejects(k) ==
  /\ Event
  /\ engine[k] = "creating"
  /\ engine' = [engine EXCEPT ![k] = "failed"]
  /\ worker' = NoWorker
  /\ isInitializing' = FALSE
  /\ UNCHANGED <<initPromise, wlang, cepoch, epoch, initSince, inflight, loc, calls, pure>>

(* ------------------------ engine recognize calls ----------------------- *)
Call(p, pass) == [proc |-> p, worker |-> worker, pass |-> pass]

\* the engine call a caller issued by moving from l to l2
Issued(p, l2) ==
  IF l2.pc \in {"rt_rec", "mp_pass"} /\ l2.box = "pending"
  THEN {Call(p, l2.currentPass)} ELSE {}

\* the promise of call c settles with status st and result r
Deliver(c, st, r) ==
  LET l == loc[c.proc] IN
  IF l.pc \in {"rt_rec", "mp_pass"} /\ l.box = "pending" /\ l.currentPass = c.pass
  THEN [loc EXCEPT ![c.proc] =
         [l EXCEPT !.box = st, !.res = r,
                   !.attempts = IF c.pass > 0
                                THEN [@ EXCEPT ![c.pass].status = st, ![c.pass].res = r]
                                ELSE @]]
  ELSE loc

RecognizeResolves(c, r) ==
  /\ Event
  /\ c \in inflight
  /\ inflight' = inflight \ {c}
  /\ loc' = Deliver(c, "ok", r)
  /\ UNCHANGED <<worker, isInitializing, initPromise, engine, wlang, cepoch, epoch,
                 initSince, calls, pure>>

RecognizeRejects(c) ==
  /\ Event
  /\ c \in inflight
  /\ inflight' = inflight \ {c}
  /\ loc' = Deliver(c, "fail", NoRes)
  /\ UNCHANGED <<worker, isInitializing, initPromise, engine, wlang, cepoch, epoch,
                 initSince, calls, pure>>

(* ------------------------ recognizeText -------------------------------- *)
\* `await worker.recognize(image, recognizeOptions)` inside try: with no worker
\* the call throws at once and the catch block rethrows
RecognizeTextIssue(l) ==
  IF worker = NoWorker
  THEN [l EXCEPT !.pc = "done", !.outcome = "recognitionFailed"]
  ELSE [l EXCEPT !.pc = "rt_rec", !.box = "pending"]

RecognizeTextCall(p, language) ==
  /\ ApiCall(p)
  /\ LET l == [Fresh("recognizeText") EXCEPT !.language = language] IN
     IF worker = NoWorker
     THEN /\ \E k \in WorkerIds :
               /\ InitializeWorker(k, language)
               /\ loc' = [loc EXCEPT ![p] =
                    [l EXCEPT !.pc = "rt_init", !.aw = k, !.logger = Logger(k)]]
          /\ UNCHANGED inflight
     ELSE /\ loc' = [loc EXCEPT ![p] = RecognizeTextIssue(l)]
          /\ inflight' = inflight \cup Issued(p, loc'[p])
          /\ UNCHANGED <<isInitializing, initPromise, engine, wlang, cepoch, initSince>>
  /\ UNCHANGED <<worker, epoch, pure>>

\* the result object recognizeText returns
RecognizeTextResume(p) ==
  /\ loc[p].pc = "rt_rec" /\ loc[p].box \in {"ok", "fail"}
  /\ loc' = [loc EXCEPT ![p] =
       IF loc[p].box = "ok"
       THEN [@ EXCEPT !.pc = "done", !.outcome = "ok", !.box = "none",
                      !.ret = [confidence |-> loc[p].res.confidence,
                               text |-> loc[p].res.text,
                               method |-> "none", score |-> 0]]
       ELSE [@ EXCEPT !.pc = "done", !.outcome = "recognitionFailed", !.box = "none"]]
  /\ UNCHANGED <<worker, isInitializing, initPromise, engine, wlang, cepoch, epoch,
                 initSince, inflight, calls, pure>>

(* ------------------------ recognizeTextMultiPass ----------------------- *)
\* let totalPasses = 1; += 2 if tryPreprocessing; += 3 if tryRotations
TotalPasses(pre, rot) == 1 + (IF pre THEN 2 ELSE 0) + (IF rot THEN 3 ELSE 0)

Rotations == {"Rotated 90", "Rotated 180", "Rotated 270"}

\* the straight-line order of the recognizeWithProgress calls; a stage is
\* named by the label of its pass (the label's degree sign is left out)
NextStageSkipDeskewMutant(stage, pre, rot) ==
  CASE stage = "Original" ->
         IF pre THEN "Preprocessed" ELSE IF rot THEN "Rotated 90" ELSE "Scoring"
    [] stage = "Preprocessed" -> IF rot THEN "Rotated 90" ELSE "Scoring"
    [] stage = "Deskewed" -> IF rot THEN "Rotated 90" ELSE "Scoring"
    [] stage = "Rotated 90" -> "Rotated 180"
    [] stage = "Rotated 180" -> "Rotated 270"
    [] OTHER -> "Scoring"

NextStage(stage, pre, rot) ==
  CASE stage = "Original" ->
         IF pre THEN "Preprocessed" ELSE IF rot THEN "Rotated 90" ELSE "Scoring"
    [] stage = "Preprocessed" -> "Deskewed"
    [] stage = "Deskewed" -> IF rot THEN "Rotated 90" ELSE "Scoring"
    [] stage = "Rotated 90" -> "Rotated 180"
    [] stage = "Rotated 180" -> "Rotated 270"
    [] OTHER -> "Scoring"

\* const baseImage = results.length > 1 ? preprocessImage(imgElement, ...) : imgElement
RotationBase(results) == IF Len(results) > 1 THEN "preprocessed" ELSE "original"

\* the image a pass transforms: imgElement, the preprocessed canvas, or baseImage
PassBase(stage, baseImage) ==
  CASE stage \in {"Original", "Preprocessed"} -> "original"
    [] stage = "Deskewed" -> "preprocessed"
    [] OTHER -> baseImage

\* recognizeWithProgress up to its await: currentPass++ and worker.recognize;
\* with no worker the call throws inside try and the pass returns null
StartPass(l, stage, baseImage) ==
  [l EXCEPT !.pc = "mp_pass",
            !.currentPass = @ + 1,
            !.stage = stage,
            !.baseImage = baseImage,
            !.box = IF worker = NoWorker THEN "fail" ELSE "pending",
            !.res = NoRes,
            !.passEvents = 0,
            !.attempts = Append(@, [label |-> stage,
                                    base |-> PassBase(stage, baseImage),
                                    worker |-> worker,
                                    status |-> IF worker = NoWorker THEN "fail" ELSE "pending",
                                    res |-> NoRes])]

\* const results = []; totalPasses; currentPass = 0; pass 1 on the original
StartPasses(l) ==
  StartPass([l EXCEPT !.results = <<>>,
                      !.totalPasses = TotalPasses(l.tryPreprocessing, l.tryRotations),
                      !.currentPass = 0],
            "Original", "none")

\* after the worker is ensured: load the image if it is a string
AfterInit(l) ==
  IF l.imageIsString
  THEN [l EXCEPT !.pc = "mp_image", !.image = "loading", !.loads = @ + 1,
                 !.passEvents = 0]
  ELSE StartPasses(l)

\* the object recognizeWithProgress returns for a pass that succeeded
MakeResultFixedLabelMutant(r, label) ==
  [confidence |-> r.confidence, text |-> r.text, method |-> "Original"]
MakeResult(r, label) ==
  [confidence |-> r.confidence, text |-> r.text, method |-> label]

\* if (passResult) results.push(passResult)
CollectResultAlwaysMutant(l) == Append(l.results, MakeResult(l.res, l.stage))
CollectResult(l) ==
  IF l.box = "ok" THEN Append(l.results, MakeResult(l.res, l.stage)) ELSE l.results

\* if (results.length === 0) throw new Error('All OCR passes failed')
AllPassesFailedMutant(results) == Len(results) <= 1
AllPassesFailed(results) == Len(results) = 0

\* scoring and selection
Finish(l) ==
  IF AllPassesFailed(l.results)
  THEN [l EXCEPT !.pc = "done", !.outcome = "allFailed"]
  ELSE [l EXCEPT !.pc = "done", !.outcome = "ok", !.ret = BestResult(l.results)]

\* the continuation after `await recognizeWithProgress(...)`
AfterPassRetryMutant(l) ==
  LET l1 == [l EXCEPT !.results = CollectResult(l), !.box = "none"]
      next == NextStage(l.stage, l.tryPreprocessing, l.tryRotations)
      retried == l.currentPass > 1 /\ l.attempts[l.currentPass - 1].label = l.stage
  IN  IF l.box = "fail" /\ ~retried THEN StartPass(l1, l.stage, l.baseImage)
      ELSE IF next = "Scoring" THEN Finish(l1)
      ELSE StartPass(l1, next,
                     IF next = "Rotated 90" THEN RotationBase(l1.results)
                     ELSE l1.baseImage)

AfterPass(l) ==
  LET l1 == [l EXCEPT !.results = CollectResult(l), !.box = "none"]
      next == NextStage(l.stage, l.tryPreprocessing, l.tryRotations)
  IN  IF next = "Scoring" THEN Finish(l1)
      ELSE StartPass(l1, next,
                     IF next = "Rotated 90" THEN RotationBase(l1.results)
                     ELSE l1.baseImage)

\* the options object of a multi-pass call
Options(language, pre, rot, cb) ==
  [language |-> language, tryPreprocessing |-> pre, tryRotations |-> rot,
   onProgress |-> cb]

\* recognizeTextMultiPass(image, options); str: the image is a URL or data URL
MultiPassCall(p, str, options) ==
  /\ ApiCall(p)
  /\ LET l == [Fresh("recognizeTextMultiPass") EXCEPT
                 !.language = options.language,
                 !.onProgress = options.onProgress,
                 !.tryPreprocessing = options.tryPreprocessing,
                 !.tryRotations = options.tryRotations,
                 !.imageIsString = str]
     IN IF worker = NoWorker
        THEN /\ \E k \in WorkerIds :
                  /\ InitializeWorker(k, options.language)
                  /\ loc' = [loc EXCEPT ![p] =
                       [l EXCEPT !.pc = "mp_init", !.aw = k, !.logger = Logger(k)]]
             /\ UNCHANGED inflight
        ELSE /\ loc' = [loc EXCEPT ![p] = AfterInit(l)]
             /\ inflight' = inflight \cup Issued(p, loc'[p])
             /\ UNCHANGED <<isInitializing, initPromise, engine, wlang, cepoch, initSince>>
  /\ UNCHANGED <<worker, epoch, pure>>

\* imgElement.onload
ImageLoads(p) ==
  /\ Event
  /\ loc[p].pc = "mp_image"
  /\ loc' = [loc EXCEPT ![p] = StartPasses([@ EXCEPT !.image = "loaded"])]
  /\ inflight' = inflight \cup Issued(p, loc'[p])
  /\ UNCHANGED <<worker, isInitializing, initPromise, engine, wlang, cepoch, epoch,
                 initSince, calls, pure>>

\* `imgElement.onerror = reject`: the await throws outside any try and the
\* call rejects with the load error
ImageErrorSwallowedMutant(l) == StartPasses(l)
ImageError(l) == [l EXCEPT !.pc = "done", !.outcome = "imageError"]

\* imgElement.onerror
ImageFails(p) ==
  /\ Event
  /\ loc[p].pc = "mp_image"
  /\ loc' = [loc EXCEPT ![p] = ImageError([@ EXCEPT !.image = "failed"])]
  /\ UNCHANGED <<worker, isInitializing, initPromise, engine, wlang, cepoch, epoch,
                 initSince, inflight, calls, pure>>

MultiPassResume(p) ==
  /\ loc[p].pc = "mp_pass" /\ PassSettled(loc[p])
  /\ loc' = [loc EXCEPT ![p] = AfterPass(@)]
  /\ inflight' = inflight \cup Issued(p, loc'[p])
  /\ UNCHANGED <<worker, isInitializing, initPromise, engine, wlang, cepoch, epoch,
                 initSince, calls, pure>>

(* ------------------------ logger callbacks ----------------------------- *)
\* onProgress(e): e is delivered to the caller's callback
Delivered(l, e) ==
  [l EXCEPT !.prevEvent = l.lastEvent, !.lastEvent = e, !.passEvents = @ + 1]

\* The engine's own progress within one job (a creation, or one recognize
\* call) does not go back: the least progress its next callback can report.
JobProgress(l, kind, pass) ==
  IF l.passEvents > 0 /\ l.lastEvent.kind = kind /\ l.lastEvent.from = pass
  THEN l.lastEvent.m ELSE 0

\* createWorker's logger option: onProgress({status: m.status, progress: m.progress})
InitEvent(m) ==
  [kind |-> "init", label |-> "engine status", index |-> 0, total |-> 0,
   from |-> 0, m |-> m, num |-> m, den |-> ProgressSteps]

\* the engine calls the logger of the pending creation k with progress m
InitLogger(k, m) ==
  /\ Event
  /\ engine[k] = "creating"
  /\ \E p \in Procs :
       /\ loc[p].logger = k /\ loc[p].onProgress
       /\ loc[p].passEvents < MaxEvents
       /\ m >= JobProgress(loc[p], "init", 0)
       /\ loc' = [loc EXCEPT ![p] = Delivered(@, InitEvent(m))]
  /\ UNCHANGED <<worker, isInitializing, initPromise, engine, wlang, cepoch, epoch,
                 initSince, inflight, calls, pure>>

\* const passProgress = (currentPass - 1) / totalPasses, as a number of passes
PassProgressOffByOneMutant(pass) == pass
PassProgress(pass) == pass - 1

\* The logger of the recognize call of pass `pass`: label and passProgress are
\* the closure's own, currentPass and totalPasses are read when it runs.
\* overallProgress = passProgress + m.progress / totalPasses.
PassEventZeroBasedMutant(l, pass, m) ==
  [kind |-> "pass", label |-> l.attempts[pass].label, index |-> l.currentPass - 1,
   total |-> l.totalPasses, from |-> pass, m |-> m,
   num |-> PassProgress(pass) * ProgressSteps + m,
   den |-> l.totalPasses * ProgressSteps]

PassEvent(l, pass, m) ==
  [kind |-> "pass", label |-> l.attempts[pass].label, index |-> l.currentPass,
   total |-> l.totalPasses, from |-> pass, m |-> m,
   num |-> PassProgress(pass) * ProgressSteps + m,
   den |-> l.totalPasses * ProgressSteps]

\* the engine calls the logger of the recognize call c in flight with progress m
PassLogger(c, m) ==
  /\ Event
  /\ c \in inflight
  /\ LET l == loc[c.proc] IN
       /\ l.op = "recognizeTextMultiPass" /\ l.onProgress
       /\ c.pass \in 1..Len(l.attempts)
       /\ l.passEvents < MaxEvents
       /\ m >= JobProgress(l, "pass", c.pass)
       /\ loc' = [loc EXCEPT ![c.proc] = Delivered(l, PassEvent(l, c.pass, m))]
  /\ UNCHANGED <<worker, isInitializing, initPromise, engine, wlang, cepoch, epoch,
                 initSince, inflight, calls, pure>>

(* ------------------------ awaiting initialization ---------------------- *)
\* the continuation after `await initializeWorker(...)` or of its caller
InitResume(p) ==
  /\ InitSettled(loc[p])
  /\ LET l == loc[p]
         failed == PromiseState(l.aw) = "rejected"
     IN loc' = [loc EXCEPT ![p] =
          IF failed THEN [l EXCEPT !.pc = "done", !.outcome = "initError"]
          ELSE CASE l.pc = "init" -> [l EXCEPT !.pc = "done", !.outcome = "ok"]
                 [] l.pc = "rt_init" -> RecognizeTextIssue(l)
                 [] OTHER -> AfterInit(l)]
  /\ inflight' = inflight \cup Issued(p, loc'[p])
  /\ UNCHANGED <<worker, isInitializing, initPromise, engine, wlang, cepoch, epoch,
                 initSince, calls, pure>>

(* ------------------------ terminateWorker ------------------------------ *)
TerminateWorkerCall(p) ==
  /\ ApiCall(p)
  /\ epoch' = epoch + 1
  /\ IF worker # NoWorker
     THEN /\ engine' = [engine EXCEPT ![worker] =
                          IF @ = "terminated" THEN @ ELSE "terminating"]
          /\ loc' = [loc EXCEPT ![p] =
                       [Fresh("terminateWorker") EXCEPT !.pc = "term", !.aw = worker]]
          /\ UNCHANGED <<worker, isInitializing, initPromise>>
     ELSE /\ isInitializing' = FALSE
          /\ initPromise' = NoWorker
          /\ loc' = [loc EXCEPT ![p] =
                       [Fresh("terminateWorker") EXCEPT !.pc = "done", !.outcome = "ok"]]
          /\ UNCHANGED <<worker, engine>>
  /\ initSince' = FALSE
  /\ UNCHANGED <<wlang, cepoch, inflight, pure>>

\* worker.terminate() resolves; worker = null and the flags are reset
TerminateDone(p) ==
  /\ Event
  /\ loc[p].pc = "term"
  /\ engine' = [engine EXCEPT ![loc[p].aw] = "terminated"]
  /\ worker' = NoWorker
  /\ isInitializing' = FALSE
  /\ initPromise' = NoWorker
  /\ loc' = [loc EXCEPT ![p] = [@ EXCEPT !.pc = "done", !.outcome = "ok"]]
  /\ UNCHANGED <<wlang, cepoch, epoch, initSince, inflight, calls, pure>>

(* ------------------------ getWorkerStatus ------------------------------ *)
GetWorkerStatus == [initialized |-> worker # NoWorker, initializing |-> isInitializing]

(* ------------------------ the caller ----------------------------------- *)
\* the caller's continuation after its awaited call settled (useOCR); the
\* call's locals go out of scope
Return(p) ==
  /\ loc[p].pc = "done"
  /\ loc' = [loc EXCEPT ![p] = InitLoc]
  /\ UNCHANGED <<worker, isInitializing, initPromise, engine, wlang, cepoch, epoch,
                 initSince, inflight, calls, pure>>

(* ------------------------ detectVerticalText --------------------------- *)
\* a line of an OCR result: with or without bbox {x0, y0, x1, y1}
BBox(w, h) == [x0 |-> 0, y0 |-> 0, x1 |-> w, y1 |-> h]
NoBBox == BBox(0, 0)
OcrLines ==
  {[hasBBox |-> FALSE, bbox |-> NoBBox]}
  \cup {[hasBBox |-> TRUE, bbox |-> BBox(w, h)] :
          w \in 1..MaxBoxWidth, h \in 1..MaxBoxHeight}

\* OCR results: `lines` missing, or an array of up to MaxLines lines
OcrResults ==
  {[hasLines |-> FALSE, lines |-> <<>>]}
  \cup {[hasLines |-> TRUE, lines |-> ls] :
          ls \in UNION {[1..n -> OcrLines] : n \in 0..MaxLines}}

\* the loop over ocrResult.lines counting the lines taller than twice their width
RECURSIVE VerticalCount(_)
VerticalCount(lines) ==
  IF lines = <<>> THEN 0
  ELSE LET line == Head(lines)
           width == line.bbox.x1 - line.bbox.x0
           height == line.bbox.y1 - line.bbox.y0
       IN (IF line.hasBBox /\ height > width * 2 THEN 1 ELSE 0)
          + VerticalCount(Tail(lines))

\* verticalCount > lines.length / 2, the division being exact
DetectVerticalTextAtLeastHalfMutant(ocrResult) ==
  IF ~ocrResult.hasLines \/ Len(ocrResult.lines) = 0 THEN FALSE
  ELSE 2 * VerticalCount(ocrResult.lines) >= Len(ocrResult.lines)

DetectVerticalText(ocrResult) ==
  IF ~ocrResult.hasLines \/ Len(ocrResult.lines) = 0 THEN FALSE
  ELSE 2 * VerticalCount(ocrResult.lines) > Len(ocrResult.lines)

DetectVerticalTextCall ==
  /\ pure.fn = "detectVerticalText" /\ ~pure.done
  /\ pure' = [pure EXCEPT !.done = TRUE, !.out = DetectVerticalText(pure.ocrResult)]
  /\ UNCHANGED <<worker, isInitializing, initPromise, engine, wlang, cepoch, epoch,
                 initSince, inflight, loc, calls>>

(* ------------------------ deskewImage ---------------------------------- *)
\* An image source: an HTMLCanvasElement or an HTMLImageElement.  id is its
\* identity as an object; data holds the gray value of each pixel, row by
\* row.  rendered marks a canvas whose pixels the browser drew by rotation:
\* they are not modelled.
Shades == {0, 255}

Image(kind, id, w, h, data) ==
  [kind |-> kind, id |-> id, width |-> w, height |-> h, data |-> data,
   rendered |-> FALSE]

NoImage == Image("none", 0, 0, 0, <<>>)

Sources ==
  UNION {{Image(kind, 1, w, h, d) : kind \in {"canvas", "image"},
                                    d \in [1..(w * h) -> Shades]} :
           w \in 1..MaxWidth, h \in 1..MaxHeight}

\* Angles are counted in half degrees: the loop runs angle from -15 to 15 in
\* steps of 0.5.  Math.tan, Math.sin and Math.cos of 1..30 half degrees are
\* tabled in millionths.
MaxSkew == 30
Micro == 1000000
TanMicro ==
  <<8727, 17455, 26186, 34921, 43661, 52408,
    61163, 69927, 78702, 87489, 96289, 105104,
    113936, 122785, 131652, 140541, 149451, 158384,
    167343, 176327, 185339, 194380, 203452, 212557,
    221695, 230868, 240079, 249328, 258618, 267949>>
SinMicro ==
  <<8727, 17452, 26177, 34899, 43619, 52336,
    61049, 69756, 78459, 87156, 95846, 104528,
    113203, 121869, 130526, 139173, 147809, 156434,
    165048, 173648, 182236, 190809, 199368, 207912,
    216440, 224951, 233445, 241922, 250380, 258819>>
CosMicro ==
  <<999962, 999848, 999657, 999391, 999048, 998630,
    998135, 997564, 996917, 996195, 995396, 994522,
    993572, 992546, 991445, 990268, 989016, 987688,
    986286, 984808, 983255, 981627, 979925, 978148,
    976296, 974370, 972370, 970296, 968148, 965926>>

Abs(n) == IF n < 0 THEN -n ELSE n
Tan(a) == IF a = 0 THEN 0 ELSE IF a > 0 THEN TanMicro[a] ELSE -TanMicro[-a]

\* Math.round(y + x * Math.tan(rad))
ProjY(x, y, a) == (y * Micro + x * Tan(a) + Micro \div 2) \div Micro

\* data[(y * canvas.width + x) * 4], the red channel
Pixel(canvas, x, y) == canvas.data[y * canvas.width + x + 1]

\* projY of each pixel at angle a, row by row; -1 for a pixel that is not black
Projected(canvas, a) ==
  [i \in 1..(canvas.width * canvas.height) |->
     IF canvas.data[i] < 128
     THEN ProjY((i - 1) % canvas.width, (i - 1) \div canvas.width, a)
     ELSE -1]

\* the horizontal projection of the black pixels at angle a
Projection(canvas, a) ==
  LET projY == Projected(canvas, a)
  IN [r \in 0..(canvas.height - 1) |->
        Cardinality({i \in DOMAIN projY : projY[i] = r})]

RECURSIVE SumTo(_, _)
SumTo(f, n) == IF n < 0 THEN 0 ELSE f[n] + SumTo(f, n - 1)

\* the variance of a projection of n rows, times n cubed: the sum of the
\* squares of n * val - sum.  Variances are compared exactly; the code's
\* doubles agree with that on every image of up to two rows, where mean and
\* squares are exact.
Variance(projection, n) ==
  LET sum == SumTo(projection, n - 1)
      sq == [r \in 0..(n - 1) |-> (n * projection[r] - sum) * (n * projection[r] - sum)]
  IN SumTo(sq, n - 1)

\* the loop of detectSkewAngle from angle a on
RECURSIVE BestAngleLastMaxMutant(_, _, _, _)
BestAngleLastMaxMutant(canvas, a, maxVariance, bestAngle) ==
  IF a > MaxSkew THEN bestAngle
  ELSE LET variance == Variance(Projection(canvas, a), canvas.height)
       IN IF variance >= maxVariance
          THEN BestAngleLastMaxMutant(canvas, a + 1, variance, a)
          ELSE BestAngleLastMaxMutant(canvas, a + 1, maxVariance, bestAngle)

RECURSIVE BestAngle(_, _, _, _)
BestAngle(canvas, a, maxVariance, bestAngle) ==
  IF a > MaxSkew THEN bestAngle
  ELSE LET variance == Variance(Projection(canvas, a), canvas.height)
       IN IF variance > maxVariance
          THEN BestAngle(canvas, a + 1, variance, a)
          ELSE BestAngle(canvas, a + 1, maxVariance, bestAngle)

DetectSkewAngle(canvas) == BestAngle(canvas, -MaxSkew, 0, 0)

\* detectSkewAngle applied to the canvas
DetectSkewAngleCall ==
  /\ pure.fn = "detectSkewAngle" /\ ~pure.done
  /\ pure' = [pure EXCEPT !.done = TRUE, !.angle = DetectSkewAngle(pure.canvas)]
  /\ UNCHANGED <<worker, isInitializing, initPromise, engine, wlang, cepoch, epoch,
                 initSince, inflight, loc, calls>>

\* Math.ceil of n millionths
Ceil(n) == n \div Micro + (IF n % Micro = 0 THEN 0 ELSE 1)

\* the canvas deskewImage works on: the source itself if it is a canvas,
\* else a new canvas (object fresh) the source is drawn onto
AsCanvas(source, fresh) ==
  IF source.kind = "canvas" THEN source
  ELSE Image("canvas", fresh, source.width, source.height, source.data)

\* the new canvas (object fresh) the canvas is drawn onto rotated by -angle
Rotated(canvas, angle, fresh) ==
  LET sin == SinMicro[Abs(angle)]
      cos == CosMicro[Abs(angle)]
  IN [kind |-> "canvas", id |-> fresh,
      width |-> Ceil(canvas.width * cos + canvas.height * sin),
      height |-> Ceil(canvas.width * sin + canvas.height * cos),
      data |-> <<>>, rendered |-> TRUE]

\* deskewImage(source); Math.abs(angle) < 0.5 is less than one half degree
DeskewImageAlwaysCopiesMutant(source, fresh) ==
  LET canvas == Image("canvas", fresh, source.width, source.height, source.data)
      angle == DetectSkewAngle(canvas)
  IN IF Abs(angle) < 1 THEN canvas ELSE Rotated(canvas, angle, fresh + 1)

DeskewImage(source, fresh) ==
  LET canvas == AsCanvas(source, fresh)
      angle == DetectSkewAngle(canvas)
  IN IF Abs(angle) < 1 THEN canvas ELSE Rotated(canvas, angle, fresh + 1)

\* deskewImage applied to the source
DeskewImageCall ==
  /\ pure.fn = "deskewImage" /\ pure.applied = 0
  /\ pure' = [pure EXCEPT !.applied = 1,
                          !.first = DeskewImage(pure.source, pure.nextId),
                          !.nextId = @ + 2]
  /\ UNCHANGED <<worker, isInitializing, initPromise, engine, wlang, cepoch, epoch,
                 initSince, inflight, loc, calls>>

\* deskewImage applied to its own result
DeskewImageAgain ==
  /\ pure.fn = "deskewImage" /\ pure.applied = 1
  /\ ~pure.first.rendered
  /\ pure' = [pure EXCEPT !.applied = 2,
                          !.second = DeskewImage(pure.first, pure.nextId),
                          !.nextId = @ + 2]
  /\ UNCHANGED <<worker, isInitializing, initPromise, engine, wlang, cepoch, epoch,
                 initSince, inflight, loc, calls>>

(* ------------------------ ImageData ------------------------------------ *)
\* An ImageData: data holds one <<R, G, B, A>> per pixel, row by row (the
\* four consecutive bytes of the Uint8ClampedArray).
MaxSide == 3          \* width and height in pixels of an ImageData

Transparent == <<0, 0, 0, 0>>
Black == <<0, 0, 0, 255>>
White == <<255, 255, 255, 255>>
Ochre == <<200, 120, 40, 128>>
Palette == {Black, White, Ochre}

ImageData(w, h, data) == [width |-> w, height |-> h, data |-> data]

\* new ImageData(width, height): every byte is 0
NewImageData(w, h) == ImageData(w, h, [i \in 1..(w * h) |-> Transparent])

\* what getImageData reads from the sources tried: a background colour and
\* at most one pixel (the spot) of another colour
Pictures ==
  UNION {{ImageData(w, h, [i \in 1..(w * h) |-> IF i = spot THEN ink ELSE bg]) :
            bg \in Palette, ink \in Palette, spot \in 0..(w * h)} :
           w \in 1..MaxSide, h \in 1..MaxSide}

Max(a, b) == IF a > b THEN a ELSE b
Clamp(v) == Min(255, Max(0, v))

\* column and row of the pixel with index i of data
Col(imageData, i) == (i - 1) % imageData.width
Row(imageData, i) == (i - 1) \div imageData.width

\* the pixel at column x of row y
At(imageData, x, y) == imageData.data[y * imageData.width + x + 1]

\* the pixels both loops `for (y = 1; y < height - 1; ...)`,
\* `for (x = 1; x < width - 1; ...)` visit
Interior(imageData, x, y) ==
  /\ 1 <= y /\ y < imageData.height - 1
  /\ 1 <= x /\ x < imageData.width - 1

(* ------------------------ applySharpen --------------------------------- *)
Kernel == <<0, -1, 0, -1, 5, -1, 0, -1, 0>>

\* sum over ky, kx of data[((y + ky) * width + (x + kx)) * 4 + c] times the
\* kernel entry (ky + 1) * 3 + (kx + 1); n counts the nine entries
Convolve(imageData, x, y, c) ==
  LET term == [n \in 0..8 |->
                 At(imageData, x + (n % 3) - 1, y + (n \div 3) - 1)[c] * Kernel[n + 1]]
  IN SumTo(term, 8)

\* applySharpen(imageData): a new ImageData whose interior pixels are written
ApplySharpen(imageData) ==
  ImageData(imageData.width, imageData.height,
    [i \in 1..(imageData.width * imageData.height) |->
       LET x == Col(imageData, i)
           y == Row(imageData, i)
       IN IF Interior(imageData, x, y)
          THEN <<Clamp(Convolve(imageData, x, y, 1)),
                 Clamp(Convolve(imageData, x, y, 2)),
                 Clamp(Convolve(imageData, x, y, 3)),
                 At(imageData, x, y)[4]>>
          ELSE NewImageData(imageData.width, imageData.height).data[i]])

ApplySharpenCall ==
  /\ pure.fn = "applySharpen" /\ ~pure.done
  /\ pure' = [pure EXCEPT !.done = TRUE, !.output = ApplySharpen(pure.imageData)]
  /\ UNCHANGED <<worker, isInitializing, initPromise, engine, wlang, cepoch, epoch,
                 initSince, inflight, loc, calls>>

(* ------------------------ calculateOtsuThreshold ----------------------- *)
MaxPixels == 4        \* pixels of the data given to calculateOtsuThreshold

\* the gray values of the data tried, and a gray pixel
Levels == {0, 60, 61, 128, 255}
Gray(v) == <<v, v, v, 255>>

\* histogram[data[i]]++ for the first byte of every pixel
Histogram(data) ==
  [v \in 0..255 |-> Cardinality({i \in DOMAIN data : data[i][1] = v})]

\* sum of i * histogram[i] for i from lo to hi, halving the range
RECURSIVE WeightedSum(_, _, _)
WeightedSum(histogram, lo, hi) ==
  IF lo = hi THEN lo * histogram[lo]
  ELSE LET mid == (lo + hi) \div 2
       IN WeightedSum(histogram, lo, mid) + WeightedSum(histogram, mid + 1, hi)

\* A variance wB * wF * (mB - mF) * (mB - mF) is kept as the fraction
\* num / den with num = (sumB * wF - (sum - sumB) * wB) squared and
\* den = wB * wF; 0 is 0 / 1.  Fractions are compared exactly, by quotient
\* and remainder.  The code's doubles agree when the means are integers (two
\* gray values); otherwise rounding can separate variances that are equal.
Fraction(num, den) == [num |-> num, den |-> den]

Greater(v, w) ==
  LET qv == v.num \div v.den
      qw == w.num \div w.den
  IN \/ qv > qw
     \/ qv = qw /\ (v.num % v.den) * w.den > (w.num % w.den) * v.den

\* the variables of the loop before its first iteration
OtsuStart ==
  [wB |-> 0, sumB |-> 0, maxVariance |-> Fraction(0, 1), threshold |-> 0,
   break |-> FALSE]

\* one iteration of `for (let i = 0; i < 256; i++)`; break marks the loop left
OtsuStepLastMaxMutant(histogram, total, sum, st, i) ==
  LET wB == st.wB + histogram[i]
      wF == total - wB
      sumB == st.sumB + i * histogram[i]
      d == sumB * wF - (sum - sumB) * wB
      variance == Fraction(d * d, wB * wF)
  IN IF st.break THEN st
     ELSE IF wB = 0 THEN [st EXCEPT !.wB = wB]
     ELSE IF wF = 0 THEN [st EXCEPT !.wB = wB, !.break = TRUE]
     ELSE IF ~Greater(st.maxVariance, variance)
     THEN [st EXCEPT !.wB = wB, !.sumB = sumB, !.maxVariance = variance,
                     !.threshold = i]
     ELSE [st EXCEPT !.wB = wB, !.sumB = sumB]

OtsuStep(histogram, total, sum, st, i) ==
  LET wB == st.wB + histogram[i]
      wF == total - wB
      sumB == st.sumB + i * histogram[i]
      d == sumB * wF - (sum - sumB) * wB
      variance == Fraction(d * d, wB * wF)
  IN IF st.break THEN st
     ELSE IF wB = 0 THEN [st EXCEPT !.wB = wB]
     ELSE IF wF = 0 THEN [st EXCEPT !.wB = wB, !.break = TRUE]
     ELSE IF Greater(variance, st.maxVariance)
     THEN [st EXCEPT !.wB = wB, !.sumB = sumB, !.maxVariance = variance,
                     !.threshold = i]
     ELSE [st EXCEPT !.wB = wB, !.sumB = sumB]

\* the iterations lo..hi in ascending order, halving the range; once the
\* loop is left the later iterations are not run
RECURSIVE OtsuLoop(_, _, _, _, _, _)
OtsuLoop(histogram, total, sum, st, lo, hi) ==
  IF lo = hi THEN OtsuStep(histogram, total, sum, st, lo)
  ELSE LET mid == (lo + hi) \div 2
           half == OtsuLoop(histogram, total, sum, st, lo, mid)
       IN IF half.break THEN half
          ELSE OtsuLoop(histogram, total, sum, half, mid + 1, hi)

\* calculateOtsuThreshold(data); data.length / 4 is the number of pixels
CalculateOtsuThreshold(data) ==
  LET histogram == Histogram(data)
      total == Len(data)
      sum == WeightedSum(histogram, 0, 255)
  IN OtsuLoop(histogram, total, sum, OtsuStart, 0, 255).threshold

CalculateOtsuThresholdCall ==
  /\ pure.fn = "calculateOtsuThreshold" /\ ~pure.done
  /\ pure' = [pure EXCEPT !.done = TRUE,
                          !.threshold = CalculateOtsuThreshold(pure.data)]
  /\ UNCHANGED <<worker, isInitializing, initPromise, engine, wlang, cepoch, epoch,
                 initSince, inflight, loc, calls>>

(* ------------------------ preprocessImage ------------------------------ *)
\* contrastLevel is a fraction; 1.5 is the default
DefaultContrastLevel == Fraction(3, 2)
ContrastLevels == {Fraction(1, 2), DefaultContrastLevel}

PreprocessOptions(sharpen, adaptiveThreshold, contrastLevel, denoise) ==
  [sharpen |-> sharpen, adaptiveThreshold |-> adaptiveThreshold,
   contrastLevel |-> contrastLevel, denoise |-> denoise]

\* storing num / den (den > 0) into a Uint8ClampedArray: clamped to 0..255
\* and rounded to the nearest integer, a tie to the even one
ToUint8Clamped(num, den) ==
  LET q == num \div den
      r == num % den
      rounded == IF 2 * r < den THEN q
                 ELSE IF 2 * r > den THEN q + 1
                 ELSE IF q % 2 = 0 THEN q ELSE q + 1
  IN Clamp(rounded)

\* gray = R * 0.299 + G * 0.587 + B * 0.114, stored into R, G and B
Grayscale(data) ==
  [i \in DOMAIN data |->
     LET gray == ToUint8Clamped(data[i][1] * 299 + data[i][2] * 587 + data[i][3] * 114,
                                1000)
     IN <<gray, gray, gray, data[i][4]>>]

\* neighbors.sort((a, b) => a - b)[4]: the fifth smallest of nine values
Median(neighbors) ==
  CHOOSE m \in {neighbors[n] : n \in DOMAIN neighbors} :
    /\ Cardinality({n \in DOMAIN neighbors : neighbors[n] < m}) <= 4
    /\ Cardinality({n \in DOMAIN neighbors : neighbors[n] <= m}) >= 5

\* the denoise loop: each interior pixel becomes the median of the 3x3
\* neighbourhood in tempData, the copy taken before the loop
Denoise(imageData) ==
  LET tempData == imageData
  IN [i \in DOMAIN imageData.data |->
        LET x == Col(imageData, i)
            y == Row(imageData, i)
            neighbors == [n \in 0..8 |->
                            At(tempData, x + (n % 3) - 1, y + (n \div 3) - 1)[1]]
            median == Median(neighbors)
        IN IF Interior(imageData, x, y)
           THEN <<median, median, median, imageData.data[i][4]>>
           ELSE imageData.data[i]]

\* factor = (259 * (contrastLevel * 255 + 255)) / (255 * (259 - contrastLevel * 255))
Factor(contrastLevel) ==
  Fraction(259 * (contrastLevel.num * 255 + contrastLevel.den * 255),
           255 * (259 * contrastLevel.den - contrastLevel.num * 255))

\* Math.min(255, Math.max(0, factor * (gray - 128) + 128)), a fraction with a
\* positive denominator
Enhanced(gray, contrastLevel) ==
  LET factor == Factor(contrastLevel)
      sign == IF factor.den < 0 THEN -1 ELSE 1
      den == sign * factor.den
      num == sign * factor.num * (gray - 128) + 128 * den
  IN Fraction(Min(255 * den, Max(0, num)), den)

\* finalValue = enhanced > threshold ? 255 : 0
FinalValue(gray, threshold, contrastLevel) ==
  LET enhanced == Enhanced(gray, contrastLevel)
  IN IF enhanced.num > threshold * enhanced.den THEN 255 ELSE 0

\* the loop "Apply contrast and binarization"
ContrastAndBinarizeRedOnlyMutant(data, threshold, contrastLevel) ==
  [i \in DOMAIN data |->
     <<FinalValue(data[i][1], threshold, contrastLevel), data[i][2], data[i][3],
       data[i][4]>>]

ContrastAndBinarize(data, threshold, contrastLevel) ==
  [i \in DOMAIN data |->
     LET finalValue == FinalValue(data[i][1], threshold, contrastLevel)
     IN <<finalValue, finalValue, finalValue, data[i][4]>>]

\* preprocessImage(source, options), from the ImageData read from the source
\* to the ImageData put on the new canvas
PreprocessImage(source, options) ==
  LET sharpened == IF options.sharpen THEN ApplySharpen(source) ELSE source
      gray == ImageData(source.width, source.height, Grayscale(sharpened.data))
      data == IF options.denoise THEN Denoise(gray) ELSE gray.data
      threshold == IF options.adaptiveThreshold THEN CalculateOtsuThreshold(data)
                   ELSE 128
  IN ImageData(source.width, source.height,
               ContrastAndBinarize(data, threshold, options.contrastLevel))

PreprocessImageCall ==
  /\ pure.fn = "preprocessImage" /\ ~pure.done
  /\ pure' = [pure EXCEPT !.done = TRUE,
                          !.output = PreprocessImage(pure.source, pure.options)]
  /\ UNCHANGED <<worker, isInitializing, initPromise, engine, wlang, cepoch, epoch,
                 initSince, inflight, loc, calls>>

\* the contrast and binarization loop alone, on gray data and a threshold
ContrastAndBinarizeCall ==
  /\ pure.fn = "contrastAndBinarize" /\ ~pure.done
  /\ pure' = [pure EXCEPT !.done = TRUE,
                          !.output = ContrastAndBinarize(pure.data, pure.threshold,
                                                         pure.contrastLevel)]
  /\ UNCHANGED <<worker, isInitializing, initPromise, engine, wlang, cepoch, epoch,
                 initSince, inflight, loc, calls>>

(* ------------------------ specifications ------------------------------- *)
\* options {tryPreprocessing, tryRotations} of the multi-pass calls
AllOptions == BOOLEAN \X BOOLEAN
LifecycleOptions == {<<FALSE, FALSE>>, <<TRUE, FALSE>>}

\* The service under any interleaving of its four operations by NumProcs
\* callers.  Caller 1 is the scan workflow, which alone runs multi-pass calls,
\* here without the rotation passes.
Next ==
  \/ \E p \in Procs : InitializeWorkerCall(p, DefaultLanguage)
  \/ \E p \in Procs : RecognizeTextCall(p, DefaultLanguage)
  \/ \E o \in LifecycleOptions, str \in BOOLEAN :
       MultiPassCall(1, str, Options(DefaultLanguage, o[1], o[2], TRUE))
  \/ \E p \in Procs : TerminateWorkerCall(p)
  \/ \E k \in WorkerIds : CreateResolves(k)
  \/ \E k \in WorkerIds : CreateRejects(k)
  \/ \E c \in inflight, r \in EngineResults : RecognizeResolves(c, r)
  \/ \E c \in inflight : RecognizeRejects(c)
  \/ \E p \in Procs : ImageLoads(p)
  \/ \E p \in Procs : ImageFails(p)
  \/ \E p \in Procs : TerminateDone(p)
  \/ \E p \in Procs : InitResume(p)
  \/ \E p \in Procs : RecognizeTextResume(p)
  \/ \E p \in Procs : MultiPassResume(p)
  \/ \E p \in Procs : Return(p)

Spec == Init /\ [][Next]_vars

\* One caller runs multi-pass calls with every combination of options while
\* another initializes and terminates the worker underneath it.
NextMultiPass ==
  \/ \E o \in AllOptions, str \in BOOLEAN :
       MultiPassCall(1, str, Options(DefaultLanguage, o[1], o[2], TRUE))
  \/ InitializeWorkerCall(2, DefaultLanguage)
  \/ TerminateWorkerCall(2)
  \/ \E k \in WorkerIds : CreateResolves(k)
  \/ \E k \in WorkerIds : CreateRejects(k)
  \/ \E c \in inflight, r \in EngineResults : RecognizeResolves(c, r)
  \/ \E c \in inflight : RecognizeRejects(c)
  \/ ImageLoads(1)
  \/ ImageFails(1)
  \/ TerminateDone(2)
  \/ \E p \in Procs : InitResume(p)
  \/ MultiPassResume(1)
  \/ \E p \in Procs : Return(p)

SpecMultiPass == Init /\ [][NextMultiPass]_vars

\* Multi-pass calls of one or three passes by caller 1 while caller 2
\* terminates the worker underneath them, with every awaited operation
\* settling: each engine creation, each engine recognize call and each image
\* load eventually resolves or rejects, and the continuation of a settled
\* await runs (microtasks).
NextSettling ==
  \/ \E o \in LifecycleOptions, str \in BOOLEAN :
       MultiPassCall(1, str, Options(DefaultLanguage, o[1], o[2], TRUE))
  \/ TerminateWorkerCall(2)
  \/ \E k \in WorkerIds : CreateResolves(k)
  \/ \E k \in WorkerIds : CreateRejects(k)
  \/ \E c \in inflight, r \in EngineResults : RecognizeResolves(c, r)
  \/ \E c \in inflight : RecognizeRejects(c)
  \/ ImageLoads(1)
  \/ ImageFails(1)
  \/ TerminateDone(2)
  \/ InitResume(1)
  \/ MultiPassResume(1)
  \/ \E p \in Procs : Return(p)

Settles ==
  /\ \A k \in WorkerIds : WF_vars(CreateResolves(k) \/ CreateRejects(k))
  /\ WF_vars(\E c \in inflight :
               \/ \E r \in EngineResults : RecognizeResolves(c, r)
               \/ RecognizeRejects(c))
  /\ WF_vars(ImageLoads(1) \/ ImageFails(1))
  /\ WF_vars(InitResume(1) \/ MultiPassResume(1))
  /\ \A p \in Procs : WF_vars(Return(p))

SpecSettling == Init /\ [][NextSettling]_vars /\ Settles

\* Multi-pass calls, one after the other, whose passes the engine answers
\* with results of differing confidence and text.
NextScore ==
  \/ \E o \in AllOptions :
       MultiPassCall(1, FALSE, Options(DefaultLanguage, o[1], o[2], TRUE))
  \/ \E k \in WorkerIds : CreateResolves(k)
  \/ \E c \in inflight, r \in ScoreResults : RecognizeResolves(c, r)
  \/ \E c \in inflight : RecognizeRejects(c)
  \/ InitResume(1)
  \/ MultiPassResume(1)
  \/ Return(1)

SpecScore == Init /\ [][NextScore]_vars

\* Callers that ask for different languages: initializeWorker, recognizeText
\* and one-pass multi-pass calls, each for any of Languages.
NextLanguage ==
  \/ \E p \in Procs, lang \in Languages : InitializeWorkerCall(p, lang)
  \/ \E p \in Procs, lang \in Languages : RecognizeTextCall(p, lang)
  \/ \E lang \in Languages :
       MultiPassCall(1, FALSE, Options(lang, FALSE, FALSE, TRUE))
  \/ \E k \in WorkerIds : CreateResolves(k)
  \/ \E k \in WorkerIds : CreateRejects(k)
  \/ \E c \in inflight, r \in EngineResults : RecognizeResolves(c, r)
  \/ \E c \in inflight : RecognizeRejects(c)
  \/ \E p \in Procs : InitResume(p)
  \/ \E p \in Procs : RecognizeTextResume(p)
  \/ MultiPassResume(1)
  \/ \E p \in Procs : Return(p)

SpecLanguage == Init /\ [][NextLanguage]_vars

\* One caller runs multi-pass calls with or without onProgress while the
\* engine reports progress through the logger callbacks.
NextProgress ==
  \/ \E o \in AllOptions, cb \in BOOLEAN :
       MultiPassCall(1, FALSE, Options(DefaultLanguage, o[1], o[2], cb))
  \/ \E k \in WorkerIds : CreateResolves(k)
  \/ \E k \in WorkerIds : CreateRejects(k)
  \/ \E k \in WorkerIds, m \in 0..ProgressSteps : InitLogger(k, m)
  \/ \E c \in inflight, m \in 0..ProgressSteps : PassLogger(c, m)
  \/ \E c \in inflight, r \in EngineResults : RecognizeResolves(c, r)
  \/ InitResume(1)
  \/ MultiPassResume(1)
  \/ Return(1)

SpecProgress == Init /\ [][NextProgress]_vars

\* detectVerticalText applied to each OCR result of OcrResults
InitVertical ==
  /\ InitService
  /\ pure \in {[fn |-> "detectVerticalText", ocrResult |-> r,
                 done |-> FALSE, out |-> FALSE] : r \in OcrResults}

NextVertical == DetectVerticalTextCall

SpecVertical == InitVertical /\ [][NextVertical]_vars

\* deskewImage applied to each image of Sources, and again to its result
InitDeskew ==
  /\ InitService
  /\ pure \in {[fn |-> "deskewImage", source |-> src, applied |-> 0,
                 first |-> NoImage, second |-> NoImage, nextId |-> 2] :
                src \in Sources}

NextDeskew ==
  \/ DeskewImageCall
  \/ DeskewImageAgain

SpecDeskew == InitDeskew /\ [][NextDeskew]_vars

\* detectSkewAngle applied to each canvas of Sources
InitSkew ==
  /\ InitService
  /\ pure \in {[fn |-> "detectSkewAngle", canvas |-> src, done |-> FALSE, angle |-> 0] :
                src \in {x \in Sources : x.kind = "canvas"}}

NextSkew == DetectSkewAngleCall

SpecSkew == InitSkew /\ [][NextSkew]_vars

\* applySharpen applied to each of Pictures
InitSharpen ==
  /\ InitService
  /\ pure \in {[fn |-> "applySharpen", imageData |-> d, done |-> FALSE,
                 output |-> NewImageData(0, 0)] : d \in Pictures}

NextSharpen == ApplySharpenCall

SpecSharpen == InitSharpen /\ [][NextSharpen]_vars

\* calculateOtsuThreshold applied to each gray data of up to MaxPixels pixels
InitOtsu ==
  /\ InitService
  /\ pure \in {[fn |-> "calculateOtsuThreshold", data |-> d, done |-> FALSE,
                 threshold |-> 0] :
                d \in UNION {[1..n -> {Gray(v) : v \in Levels}] : n \in 1..MaxPixels}}

NextOtsu == CalculateOtsuThresholdCall

SpecOtsu == InitOtsu /\ [][NextOtsu]_vars

\* preprocessImage applied to each of Pictures under each of the options
InitPreprocess ==
  /\ InitService
  /\ pure \in {[fn |-> "preprocessImage", source |-> d,
                 options |-> PreprocessOptions(sh, ad, cl, dn),
                 done |-> FALSE, output |-> NewImageData(0, 0)] :
                d \in Pictures, sh \in BOOLEAN, ad \in BOOLEAN,
                cl \in ContrastLevels, dn \in BOOLEAN}

NextPreprocess == PreprocessImageCall

SpecPreprocess == InitPreprocess /\ [][NextPreprocess]_vars

\* the contrast and binarization loop applied to two gray pixels, under each
\* threshold, with the default contrastLevel
Thresholds == {0, 60, 127, 128, 200, 255}

InitContrast ==
  /\ InitService
  /\ pure \in {[fn |-> "contrastAndBinarize", data |-> <<Gray(v), Gray(w)>>,
                 threshold |-> t, contrastLevel |-> DefaultContrastLevel,
                 done |-> FALSE, output |-> <<>>] :
                v \in Levels, w \in Levels, t \in Thresholds}

NextContrast == ContrastAndBinarizeCall

SpecContrast == InitContrast /\ [][NextContrast]_vars

(* ------------------------ properties ----------------------------------- *)
MultiPassCallers == {p \in Procs : loc[p].op = "recognizeTextMultiPass"}

\* callers whose multi-pass call went through scoring and has just settled
Scored_ == {p \in MultiPassCallers :
              loc[p].pc = "done" /\ loc[p].outcome \in {"ok", "allFailed"}}

Labels(attempts) == [i \in 1..Len(attempts) |-> attempts[i].label]

IsPrefix(s, t) == Len(s) <= Len(t) /\ \A i \in 1..Len(s) : s[i] = t[i]

\* the pass plan the specification describes, by the two options
ExpectedPlan(pre, rot) ==
  <<"Original">>
  \o (IF pre THEN <<"Preprocessed", "Deskewed">> ELSE <<>>)
  \o (IF rot THEN <<"Rotated 90", "Rotated 180", "Rotated 270">> ELSE <<>>)

PlanOf(p) == ExpectedPlan(loc[p].tryPreprocessing, loc[p].tryRotations)

OkAttempts(p) == {i \in 1..Len(loc[p].attempts) : loc[p].attempts[i].status = "ok"}
FailedAttempts(p) == {i \in 1..Len(loc[p].attempts) : loc[p].attempts[i].status = "fail"}

\* C1: the passes of a multi-pass call are attempted in the order Original,
\* then Preprocessed and Deskewed iff tryPreprocessing, then the three
\* rotations iff tryRotations; each once, and their number is totalPasses
\* = 1 + 2*[tryPreprocessing] + 3*[tryRotations] whichever passes fail.
C1_PassOrder ==
  \A p \in MultiPassCallers :
    /\ IsPrefix(Labels(loc[p].attempts), PlanOf(p))
    /\ loc[p].currentPass = Len(loc[p].attempts)
    /\ p \in Scored_ =>
         /\ Labels(loc[p].attempts) = PlanOf(p)
         /\ Len(loc[p].attempts) = loc[p].totalPasses
         /\ loc[p].totalPasses =
              1 + (IF loc[p].tryPreprocessing THEN 2 ELSE 0)
                + (IF loc[p].tryRotations THEN 3 ELSE 0)

C1_Witness ==
  \E p \in Scored_ :
    /\ loc[p].tryPreprocessing /\ loc[p].tryRotations
    /\ Len(loc[p].attempts) = 6
    /\ FailedAttempts(p) # {} /\ OkAttempts(p) # {}

\* C2: every rotation pass is applied to the preprocessed image when
\* tryPreprocessing is set and to the original image otherwise, whichever
\* earlier passes succeeded or failed.
C2_RotationBase ==
  \A p \in MultiPassCallers :
    \A i \in 1..Len(loc[p].attempts) :
      loc[p].attempts[i].label \in Rotations =>
        loc[p].attempts[i].base =
          IF loc[p].tryPreprocessing THEN "preprocessed" ELSE "original"

\* the labels of the passes that succeeded, in the order attempted
RECURSIVE OkLabels(_)
OkLabels(attempts) ==
  IF attempts = <<>> THEN <<>>
  ELSE LET front == OkLabels(SubSeq(attempts, 1, Len(attempts) - 1))
           last == attempts[Len(attempts)]
       IN IF last.status = "ok" THEN Append(front, last.label) ELSE front

\* C3: an engine error in a pass is tolerated: the failed pass contributes
\* no result, every later planned pass is still attempted, and the call
\* returns a result whenever at least one pass succeeded.
C3_PassFailureTolerated ==
  \A p \in MultiPassCallers :
    /\ loc[p].pc = "done" =>
         [i \in 1..Len(loc[p].results) |-> loc[p].results[i].method]
           = OkLabels(loc[p].attempts)
    /\ (loc[p].pc = "done" /\ loc[p].attempts # <<>>) =>
         Len(loc[p].attempts) = Len(PlanOf(p))
    /\ (loc[p].pc = "done" /\ OkAttempts(p) # {}) =>
         /\ loc[p].outcome = "ok"
         /\ loc[p].ret.method \in {loc[p].attempts[i].label : i \in OkAttempts(p)}

C3_Witness ==
  \E p \in Scored_ :
    \E i \in FailedAttempts(p) : \E j \in OkAttempts(p) :
      /\ i < j
      /\ loc[p].attempts[i].worker # NoWorker
      /\ loc[p].outcome = "ok"

\* C4: a multi-pass call fails with the all-passes-failed error, returning
\* no result, exactly when every planned pass was attempted and failed.
C4_AllPassesFailed ==
  \A p \in MultiPassCallers :
    loc[p].pc = "done" =>
      /\ loc[p].outcome = "allFailed" <=>
           /\ Len(loc[p].attempts) = Len(PlanOf(p))
           /\ OkAttempts(p) = {}
      /\ loc[p].outcome = "allFailed" => loc[p].ret = NoResult

C4_Witness ==
  \E p \in Scored_ :
    /\ loc[p].outcome = "allFailed"
    /\ Len(loc[p].attempts) = 6
    /\ \A i \in 1..6 : loc[p].attempts[i].worker # NoWorker

\* number of characters left of a text once leading and trailing
\* whitespace is dropped
NonSpace(t) == {i \in 1..Len(t) : ~IsSpace(t[i])}
Largest(S) == CHOOSE x \in S : \A y \in S : y <= x
Smallest(S) == CHOOSE x \in S : \A y \in S : x <= y
TrimmedLength(t) ==
  IF NonSpace(t) = {} THEN 0 ELSE Largest(NonSpace(t)) - Smallest(NonSpace(t)) + 1

\* ten times confidence * min(1, n / 10)
ScoreOf(confidence, n) == confidence * (IF n < 10 THEN n ELSE 10)

\* the pass whose result a settled call returned
Winner(p) ==
  CHOOSE i \in 1..Len(loc[p].attempts) : loc[p].attempts[i].label = loc[p].ret.method

Returned == {p \in Scored_ : loc[p].outcome = "ok"}

\* C5 as stated: the returned result has the maximum of confidence *
\* min(1, textLength / 10) over the passes that succeeded, textLength being
\* the number of characters of the recognized text.
C5_MaxScoreFullLength ==
  \A p \in Returned :
    \A i \in OkAttempts(p) :
      ScoreOf(loc[p].attempts[i].res.confidence, Len(loc[p].attempts[i].res.text))
        <= ScoreOf(loc[p].ret.confidence, Len(loc[p].ret.text))

\* C5 amended: the returned result has the maximum of confidence *
\* min(1, textLength / 10) over the passes that succeeded, textLength being
\* the number of characters of the recognized text after leading and
\* trailing whitespace is trimmed.
C5_MaxScoreTrimmedLength ==
  \A p \in Returned :
    \A i \in OkAttempts(p) :
      ScoreOf(loc[p].attempts[i].res.confidence,
              TrimmedLength(loc[p].attempts[i].res.text))
        <= ScoreOf(loc[p].ret.confidence, TrimmedLength(loc[p].ret.text))

\* the example of the specification: (95, 1), (60, 50), (80, 20) selects the third
C5_Witness ==
  \E p \in Returned :
    /\ {<<loc[p].attempts[i].res.confidence, Len(loc[p].attempts[i].res.text)>> :
          i \in OkAttempts(p)} = {<<95, 1>>, <<60, 50>>, <<80, 20>>}
    /\ loc[p].ret.confidence = 80 /\ Len(loc[p].ret.text) = 20

AttemptScore(p, i) ==
  ScoreOf(loc[p].attempts[i].res.confidence,
          TrimmedLength(loc[p].attempts[i].res.text))

\* C6: when several successful passes share the maximum score, the result
\* of the earliest of them in pass order is returned.
C6_TieEarliest ==
  \A p \in Returned :
    \A i \in OkAttempts(p) :
      i < Winner(p) => AttemptScore(p, i) < AttemptScore(p, Winner(p))

C6_Witness ==
  \E p \in Returned :
    \E j \in OkAttempts(p) :
      /\ Winner(p) < j
      /\ AttemptScore(p, j) = AttemptScore(p, Winner(p))
      /\ loc[p].attempts[j].res # loc[p].attempts[Winner(p)].res

\* C7: the returned result carries the label of the pass that produced its
\* text and confidence, a pass planned and succeeded in this call; with
\* tryPreprocessing and without tryRotations the label is one of Original,
\* Preprocessed, Deskewed.
C7_MethodLabel ==
  \A p \in Returned :
    /\ \E i \in OkAttempts(p) :
         /\ loc[p].attempts[i].label = loc[p].ret.method
         /\ loc[p].attempts[i].res.confidence = loc[p].ret.confidence
         /\ loc[p].attempts[i].res.text = loc[p].ret.text
    /\ \E i \in 1..Len(PlanOf(p)) : PlanOf(p)[i] = loc[p].ret.method
    /\ (loc[p].tryPreprocessing /\ ~loc[p].tryRotations) =>
         loc[p].ret.method \in {"Original", "Preprocessed", "Deskewed"}

C7_Witness ==
  \E p \in Returned :
    /\ loc[p].tryPreprocessing /\ ~loc[p].tryRotations
    /\ loc[p].ret.method = "Deskewed"
    /\ Cardinality(OkAttempts(p)) = 3

CallsOf(p) == {c \in inflight : c.proc = p}

\* C8: the passes of one multi-pass call are sequential: the call never has
\* two engine recognize calls in flight.
C8_PassesSequential ==
  \A p \in Procs : Cardinality(CallsOf(p)) <= 1

C8_Witness ==
  \E p \in MultiPassCallers :
    /\ loc[p].pc = "mp_pass" /\ loc[p].currentPass >= 2
    /\ \E i \in 1..(loc[p].currentPass - 1) : loc[p].attempts[i].worker # NoWorker
    /\ CallsOf(p) = {Call(p, loc[p].currentPass)}

\* C9: a scan requested while an earlier one is in flight is rejected or
\* queued: never are two engine recognize calls in flight on one worker.
C9_OneCallPerWorker ==
  \A c \in inflight : \A d \in inflight : c.worker = d.worker => c = d

Created == {k \in WorkerIds : engine[k] \in {"live", "terminating", "terminated"}}

\* C10: the calls made between two terminateWorker calls cause at most one
\* engine creation: of the creations started since the same terminateWorker
\* call at most one has produced a worker.
C10_OneCreation ==
  \A j \in Created : \A k \in Created : cepoch[j] = cepoch[k] => j = k

\* C11: a worker is reused only for the language it was created for: the
\* engine call of a recognizeText or multi-pass call for language L runs on
\* a worker created for L, and the worker initializeWorker(L) returns, or
\* the creation a call for L waits for, is one for L.
C11_SameLanguage ==
  /\ \A c \in inflight : wlang[c.worker] = loc[c.proc].language
  /\ \A p \in Procs :
       loc[p].aw # NoWorker => wlang[loc[p].aw] = loc[p].language

\* no call is running and the engine has nothing to settle
AllSettled ==
  /\ \A p \in Procs : Free(p)
  /\ inflight = {}
  /\ \A k \in WorkerIds : engine[k] \notin {"creating", "terminating"}

\* C12: terminateWorker is safe in every state: once the last terminateWorker
\* call has completed and everything that was in flight has settled, and
\* initializeWorker has not run since that call, no engine worker is live
\* and getWorkerStatus reports initialized = false.
C12_TerminateSafe ==
  (epoch >= 1 /\ ~initSince /\ AllSettled) =>
    /\ \A k \in WorkerIds : engine[k] # "live"
    /\ ~GetWorkerStatus.initialized

\* terminateWorker calls that have completed
CompletedTerminations == epoch - Cardinality({p \in Procs : loc[p].pc = "term"})

ServiceCalls == {"initializeWorker", "recognizeText", "recognizeTextMultiPass"}

\* the worker, or the creation, a call of p is bound to once it is made: the
\* creation it waits for, else the existing worker it returns or recognizes on
BoundWorker(l, w) == IF l.pc \in {"init", "rt_init", "mp_init"} THEN l.aw ELSE w

\* C13: after a terminateWorker call has completed, a call of
\* initializeWorker, recognizeText or recognizeTextMultiPass gets a worker
\* whose creation started after that terminateWorker call: never a worker or
\* a pending initialization from before it.
C13_FreshAfterTerminate ==
  [][\A p \in Procs :
       (Free(p) /\ loc'[p].op \in ServiceCalls) =>
          LET w == BoundWorker(loc'[p], worker') IN
          w # NoWorker => cepoch'[w] >= CompletedTerminations]_vars

\* C17: a multi-pass call whose image source fails to load fails at once
\* with the load error: the load is started once, no pass is run, no engine
\* recognize call is made and nothing is returned.
C17_ImageLoadFails ==
  \A p \in MultiPassCallers :
    /\ loc[p].loads <= 1
    /\ loc[p].image = "failed" =>
         /\ loc[p].pc = "done" /\ loc[p].outcome = "imageError"
         /\ loc[p].attempts = <<>> /\ loc[p].currentPass = 0
         /\ CallsOf(p) = {}
         /\ loc[p].ret = NoResult

C17_Witness ==
  \E p \in MultiPassCallers :
    /\ loc[p].image = "failed" /\ loc[p].outcome = "imageError"
    /\ worker # NoWorker /\ engine[worker] = "live"

\* C18: when the lazy initialization of a recognizeText or multi-pass call
\* fails, the call fails with the initialization error, without a pass and
\* without an engine recognize call, and at that moment getWorkerStatus
\* reports initialized = false and initializing = false.
C18_LazyInitFails ==
  \A p \in Procs :
    (/\ loc[p].op \in {"recognizeText", "recognizeTextMultiPass"}
     /\ loc[p].aw # NoWorker /\ engine[loc[p].aw] = "failed") =>
       /\ loc[p].pc \in {"rt_init", "mp_init", "done"}
       /\ loc[p].attempts = <<>> /\ CallsOf(p) = {}
       /\ loc[p].pc = "done" =>
            /\ loc[p].outcome = "initError"
            /\ loc[p].ret = NoResult
            /\ GetWorkerStatus = [initialized |-> FALSE, initializing |-> FALSE]

C18_Witness ==
  \E p \in Procs : \E q \in Procs :
    /\ loc[p].op = "recognizeTextMultiPass" /\ loc[p].outcome = "initError"
    /\ loc[q].op = "recognizeText" /\ loc[q].outcome = "initError"
    /\ engine[loc[p].aw] = "failed" /\ loc[q].aw = loc[p].aw

\* callers whose multi-pass call has onProgress
Reporting == {p \in MultiPassCallers : loc[p].onProgress}

ProgressLeq(e1, e2) == e1.num * e2.den <= e2.num * e1.den

\* the progress of event e of pass i of N is (i - 1) / N + m / N for the
\* engine's progress m = e.m / ProgressSteps, and lies in [(i - 1) / N, i / N]
\* and in [0, 1]
PassValue(e, i, N) ==
  /\ e.num * (N * ProgressSteps) = ((i - 1) * ProgressSteps + e.m) * e.den
  /\ (i - 1) * e.den <= e.num * N
  /\ e.num * N <= i * e.den
  /\ 0 <= e.num /\ e.num <= e.den

C16_EventPerPass ==
  \A p \in Reporting :
    (loc[p].pc = "mp_pass" /\ PassSettled(loc[p])) =>
      /\ loc[p].passEvents >= 1
      /\ loc[p].lastEvent.kind = "pass"
      /\ loc[p].lastEvent.from = loc[p].currentPass

\* the lines of an OCR result that have a bounding box taller than twice
\* its width
Flagged(r) ==
  {i \in 1..Len(r.lines) :
     /\ r.lines[i].hasBBox
     /\ r.lines[i].bbox.y1 - r.lines[i].bbox.y0
          > 2 * (r.lines[i].bbox.x1 - r.lines[i].bbox.x0)}

\* C20: detectVerticalText returns true exactly when the lines with a
\* bounding box of height > 2 x width are more than half of all lines, lines
\* without a bounding box counting in the total only; it returns false for
\* a result without lines.
C20_VerticalMajority ==
  (pure.fn = "detectVerticalText" /\ pure.done) =>
    LET r == pure.ocrResult IN
    /\ pure.out <=> (2 * Cardinality(Flagged(r)) > Len(r.lines))
    /\ Len(r.lines) = 0 => ~pure.out

C20_Witness ==
  /\ pure.fn = "detectVerticalText" /\ pure.done /\ pure.out
  /\ Len(pure.ocrResult.lines) = 3
  /\ Cardinality(Flagged(pure.ocrResult)) = 2
  /\ \E i \in 1..3 : ~pure.ocrResult.lines[i].hasBBox

\* the source has a detected skew angle below 0.5 degrees in absolute value
Unskewed(source) == Abs(DetectSkewAngle(source)) < 1

SamePixels(a, b) ==
  /\ a.width = b.width /\ a.height = b.height
  /\ ~a.rendered /\ ~b.rendered
  /\ a.data = b.data

\* C19: on an image whose detected skew angle is below 0.5 degrees,
\* deskewImage returns the image unchanged (same dimensions, the same
\* pixels), and deskewImage applied to that result returns the very same
\* canvas.
C19_DeskewNoOp ==
  (pure.fn = "deskewImage" /\ pure.applied >= 1 /\ Unskewed(pure.source)) =>
    /\ pure.applied >= 1 =>
         /\ SamePixels(pure.first, pure.source)
         /\ pure.source.kind = "canvas" => pure.first = pure.source
    /\ pure.applied = 2 => pure.second = pure.first

C19_Witness ==
  /\ pure.fn = "deskewImage" /\ pure.applied = 2
  /\ Unskewed(pure.source)
  /\ pure.source.kind = "image"
  /\ \E i \in 1..Len(pure.source.data) : pure.source.data[i] < 128
  /\ \E i \in 1..Len(pure.source.data) : pure.source.data[i] >= 128
  /\ pure.second.id = pure.first.id

(* ------------------------ C26: one live worker ------------------------- *)
\* C26: under every interleaving of the service's calls, an engine worker
\* that was created and on which terminate() was not invoked is the one the
\* module-level handle refers to: the handle is never overwritten or cleared
\* while such a worker exists, so at most one of them exists.
C26_NoLeakedWorker ==
  \A k \in WorkerIds : engine[k] = "live" => worker = k

(* ------------------------ C27: no use after terminate() ---------------- *)
\* C27: every engine recognize call is started on a worker on which
\* terminate() has not been invoked.
C27_NoUseAfterTerminate ==
  [][\A c \in inflight' \ inflight : engine[c.worker] = "live"]_vars

(* ------------------------ C28: getWorkerStatus ------------------------- *)
\* C28: in every reachable state getWorkerStatus does not report initialized
\* and initializing together, and it reports initialized exactly when the
\* module holds a worker handle.
C28_StatusConsistent ==
  /\ ~(GetWorkerStatus.initialized /\ GetWorkerStatus.initializing)
  /\ GetWorkerStatus.initialized <=> worker \in WorkerIds

\* a worker is held while another creation, started before it arrived, is
\* still pending
C28_Witness ==
  /\ GetWorkerStatus.initialized
  /\ \E k \in WorkerIds : engine[k] = "creating"

(* ------------------------ C29: retry after a failed initialization ----- *)
\* a call of p begins to wait for an initialization promise in this step
AwaitsInit(p) ==
  /\ loc[p].pc = "idle"
  /\ loc'[p].pc \in {"init", "rt_init", "mp_init"}

\* C29: the step in which a creation fails leaves the service with no worker
\* and initializing = false, and a call that finds the service in that state
\* after a failure waits for a creation it started itself, never for the
\* promise of an earlier, rejected one.
C29_RetryAfterFailure ==
  [][/\ \A k \in WorkerIds :
          engine[k] = "creating" /\ engine'[k] = "failed"
            => worker' = NoWorker /\ ~isInitializing'
     /\ \A p \in Procs :
          AwaitsInit(p) => /\ engine'[loc'[p].aw] = "creating"
                           /\ (\E j \in WorkerIds : engine[j] = "failed")
                              /\ worker = NoWorker /\ ~isInitializing
                                => engine[loc'[p].aw] = "none"]_vars

\* a call waits for a creation started after an earlier one failed
C29_Witness ==
  \E p \in Procs, j \in WorkerIds :
    /\ loc[p].pc \in {"init", "rt_init", "mp_init"}
    /\ j < loc[p].aw
    /\ engine[j] = "failed"
    /\ engine[loc[p].aw] = "creating"
    /\ cepoch[loc[p].aw] = cepoch[j]

(* ------------------------ C23: detectSkewAngle ------------------------- *)
\* the variance of the sheared projection at each of the 61 candidate angles
Variances(canvas) ==
  [a \in (-MaxSkew)..MaxSkew |-> Variance(Projection(canvas, a), canvas.height)]

\* angle is the first, in ascending order, of the angles whose variance is
\* the maximum of v
FirstMaximum(v, angle) ==
  /\ \A a \in DOMAIN v : v[a] <= v[angle]
  /\ \A a \in DOMAIN v : a < angle => v[a] < v[angle]

\* C23 as stated: detectSkewAngle returns one of the 61 candidate angles,
\* the first in ascending order of those whose projection has the maximum
\* variance, also when every candidate has variance 0.
C23_FirstMaximum ==
  (pure.fn = "detectSkewAngle" /\ pure.done) =>
    /\ pure.angle \in (-MaxSkew)..MaxSkew
    /\ FirstMaximum(Variances(pure.canvas), pure.angle)

\* C23: detectSkewAngle returns one of the 61 candidate angles; if some
\* candidate has a positive variance it is the first in ascending order of
\* those with the maximum variance, and if every candidate has variance 0 it
\* is 0.
C23_FirstPositiveMaximum ==
  (pure.fn = "detectSkewAngle" /\ pure.done) =>
    LET v == Variances(pure.canvas) IN
    /\ pure.angle \in (-MaxSkew)..MaxSkew
    /\ IF \A a \in DOMAIN v : v[a] = 0
       THEN pure.angle = 0
       ELSE FirstMaximum(v, pure.angle)

\* the angle returned is not 0 and a later angle has the same, positive,
\* variance
C23_Witness ==
  /\ pure.fn = "detectSkewAngle" /\ pure.done
  /\ pure.angle # 0
  /\ LET v == Variances(pure.canvas) IN
     /\ v[pure.angle] > 0
     /\ \E a \in DOMAIN v : a > pure.angle /\ v[a] = v[pure.angle]

(* ------------------------ C24: applySharpen ---------------------------- *)
\* C24: in the output of applySharpen every border pixel has the R, G, B and
\* A of the input, and every pixel has the alpha of the input.
C24_BorderAndAlphaKept ==
  (pure.fn = "applySharpen" /\ pure.done) =>
    \A i \in DOMAIN pure.imageData.data :
      /\ pure.output.data[i][4] = pure.imageData.data[i][4]
      /\ ~Interior(pure.imageData, Col(pure.imageData, i), Row(pure.imageData, i))
           => pure.output.data[i] = pure.imageData.data[i]

(* ------------------------ C22: calculateOtsuThreshold ------------------ *)
\* the gray values that occur in data
Peaks(data) == {data[i][1] : i \in DOMAIN data}

\* data fall on two peaks a < b with a gray value between them
Bimodal(data, a, b) == Peaks(data) = {a, b} /\ a + 1 < b

\* C22 as stated: on data whose pixels all fall on two separated peaks
\* a < b, calculateOtsuThreshold returns a threshold strictly between a and b.
C22_StrictlyBetween ==
  (pure.fn = "calculateOtsuThreshold" /\ pure.done) =>
    \A a, b \in Levels :
      Bimodal(pure.data, a, b) => a < pure.threshold /\ pure.threshold < b

\* C22: on data whose pixels all fall on two separated peaks a < b,
\* calculateOtsuThreshold returns the lower peak a itself, so a <= t < b.
C22_LowerPeak ==
  (pure.fn = "calculateOtsuThreshold" /\ pure.done) =>
    \A a, b \in Levels :
      Bimodal(pure.data, a, b) => pure.threshold = a

\* the threshold of data with peaks of different sizes, the lower not at 0
C22_Witness ==
  /\ pure.fn = "calculateOtsuThreshold" /\ pure.done
  /\ \E a, b \in Levels :
       /\ Bimodal(pure.data, a, b)
       /\ a > 0
       /\ Cardinality({i \in DOMAIN pure.data : pure.data[i][1] = a}) > 1
       /\ pure.threshold = a

(* ------------------------ C30: polarity -------------------------------- *)
\* C30: with the default contrastLevel and a fixed threshold, no pixel is
\* mapped to 255 while a strictly lighter pixel of the same data is mapped
\* to 0.
C30_PolarityPreserved ==
  (pure.fn = "contrastAndBinarize" /\ pure.done) =>
    \A i, j \in DOMAIN pure.data :
      pure.data[i][1] < pure.data[j][1] => pure.output[i][1] <= pure.output[j][1]

(* ------------------------ C21: binary output --------------------------- *)
\* C21: whatever the image and the flags sharpen, denoise and
\* adaptiveThreshold, every pixel of the output of preprocessImage, border
\* pixels included, has R = G = B, and that value is 0 or 255.
C21_BinaryOutput ==
  (pure.fn = "preprocessImage" /\ pure.done) =>
    /\ DOMAIN pure.output.data = DOMAIN pure.source.data
    /\ \A i \in DOMAIN pure.output.data :
         LET px == pure.output.data[i] IN
         /\ px[1] = px[2] /\ px[2] = px[3]
         /\ px[1] \in {0, 255}

\* every stage ran, with the default options, on an image whose interior
\* pixel differs from the others; the border pixels of the output are 255
C21_Witness ==
  /\ pure.fn = "preprocessImage" /\ pure.done
  /\ pure.options.sharpen /\ pure.options.denoise /\ pure.options.adaptiveThreshold
  /\ pure.options.contrastLevel = DefaultContrastLevel
  /\ \E i \in DOMAIN pure.source.data :
       /\ Interior(pure.source, Col(pure.source, i), Row(pure.source, i))
       /\ pure.source.data[i] # pure.source.data[1]
  /\ pure.output.data[1] = <<255, 255, 255, 0>>

(* ------------------------ C25: the course of a multi-pass call --------- *)
Running(p) ==
  loc[p].op = "recognizeTextMultiPass" /\ loc[p].pc \in {"mp_init", "mp_image", "mp_pass"}

\* Complete (a result is returned) or Failed (the call throws)
Complete(l) == l.pc = "done" /\ l.outcome = "ok" /\ l.ret # NoResult
Failed(l) == l.pc = "done" /\ l.outcome \in {"initError", "imageError", "allFailed"}
Ended(p) ==
  loc[p].op = "recognizeTextMultiPass" /\ (Complete(loc[p]) \/ Failed(loc[p]))

\* a pass begins in this step: the next in number, with a label no earlier
\* pass of the call had, the label the plan gives for that number
PassBegins(l, m) ==
  /\ m.pc = "mp_pass"
  /\ m.currentPass = l.currentPass + 1 /\ m.currentPass <= m.totalPasses
  /\ Len(m.attempts) = m.currentPass
  /\ \A n \in 1..(m.currentPass - 1) : m.attempts[n].label # m.stage
  /\ m.stage = m.attempts[m.currentPass].label

\* one step of a multi-pass call from l to m, with or without a worker when
\* it is called
CallStep(l, m, noWorker) ==
  \/ m = l
  \/ m.pc = "mp_pass" /\ l.pc = "mp_pass" /\ m.currentPass = l.currentPass
  \/ l.pc = "idle" /\ m.pc = "mp_init" /\ noWorker
  \/ l.pc = "idle" /\ ~noWorker /\ m.pc = "mp_image"
  \/ l.pc = "idle" /\ ~noWorker /\ l.currentPass = 0 /\ PassBegins(l, m)
  \/ l.pc = "mp_init" /\ m.pc = "mp_image"
  \/ l.pc = "mp_init" /\ PassBegins(l, m)
  \/ l.pc = "mp_init" /\ m.pc = "done" /\ m.outcome = "initError"
  \/ l.pc = "mp_image" /\ PassBegins(l, m)
  \/ l.pc = "mp_image" /\ m.pc = "done" /\ m.outcome = "imageError"
  \/ l.pc = "mp_pass" /\ PassBegins(l, m)
  \/ /\ l.pc = "mp_pass" /\ l.currentPass = l.totalPasses
     /\ Complete(m) \/ (m.pc = "done" /\ m.outcome = "allFailed")
  \/ l.pc = "done" /\ m.pc = "idle"

\* C25: provided image loading, engine initialization and every engine
\* recognize call settle, every recognizeTextMultiPass call goes from Idle to
\* Initializing (only if there is no worker), through the passes 1..N in
\* order, each begun once, to Scoring and ends Complete or Failed.
C25_RunsToCompletion ==
  /\ [][\A p \in Procs :
          loc'[p].op = "recognizeTextMultiPass"
            => CallStep(loc[p], loc'[p], worker = NoWorker)]_vars
  /\ \A p \in Procs : Running(p) ~> Ended(p)

\* a call that began with no worker and an image to load runs its last pass
\* of three after an earlier pass failed
C25_Witness ==
  /\ Running(1)
  /\ loc[1].aw # NoWorker /\ loc[1].loads = 1
  /\ loc[1].totalPasses = 3 /\ loc[1].currentPass = 3
  /\ \E n \in 1..2 : loc[1].attempts[n].status = "fail"

====
